---- MODULE Spec2Model ----
(***************************************************************************)
(* Model of src/compiler/translator/StaticType.h (namespace                *)
(* sh::StaticType): the constexpr mangled-name builder, the statically     *)
(* allocated TType instances (kInstance) and the static and dynamic lookup *)
(* functions that hand out pointers to them.                               *)
(*                                                                         *)
(* A pointer to a TType is modelled by the storage slot it points to.      *)
(* kInstance is declared `static constexpr` at namespace scope in a        *)
(* header, so it has internal linkage: every translation unit that         *)
(* includes the header owns its own kInstance<B, P, Q, PS, SS> object.     *)
(* Get<...>() is an inline function with external linkage that takes the   *)
(* address of that internal object; which translation unit's copy a call   *)
(* yields depends on inlining, constant folding and on which out-of-line   *)
(* copy of the function the linker keeps.  A slot is therefore the pair    *)
(* (translation unit, template arguments) and a lookup returns the slot of *)
(* its key in some translation unit.                                       *)
(*                                                                         *)
(* Strings are sequences of one-character strings.                         *)
(***************************************************************************)
EXTENDS Integers, Sequences, FiniteSets

VARIABLES ret, enc

vars == <<ret, enc>>

(***************************************************************************)
(* Bounds of the model.                                                    *)
(***************************************************************************)
\* number of translation units that include StaticType.h
NumTU == 2
\* run-time sizes are drawn from 0..MaxDynSize (unsigned char in the code)
MaxDynSize == 5

TUs == 1..NumTU
DynSizes == 0..MaxDynSize

\* marker of a defaulted (omitted) size argument; never a value of unsigned char
Omitted == -1

(***************************************************************************)
(* Enumerants of Types.h / BaseTypes.h that StaticType.h names, and one    *)
(* representative of the enumerants it does not name.                      *)
(***************************************************************************)
VecMatTypes == {"EbtFloat", "EbtInt", "EbtUInt", "EbtBool"}
BasicTypes == VecMatTypes \cup {"EbtVoid", "EbtImage2D"}
\* basic types the lookups are instantiated with
LookupTypes == {"EbtVoid", "EbtFloat"}
Precisions == {"EbpUndefined", "EbpHigh"}
Qualifiers == {"EvqGlobal", "EvqOut", "EvqTemporary"}

kStaticMangledNameMaxLength == 10

(***************************************************************************)
(* Name encoder.                                                           *)
(***************************************************************************)
\* short-code table of the sibling module: one unique short code per kind
GetBasicMangledName(basicType) ==
    CASE basicType = "EbtFloat" -> <<"f">>
      [] basicType = "EbtInt" -> <<"i">>
      [] basicType = "EbtUInt" -> <<"u">>
      [] basicType = "EbtBool" -> <<"b">>
      [] basicType = "EbtVoid" -> <<"v">>
      [] basicType = "EbtImage2D" -> <<"i", "m", "g", "2", "D">>

\* the character '0' + n
CharPlus0(n) ==
    <<"0", "1", "2", "3", "4", "5", "6", "7", "8", "9">>[n + 1]

\* variant: isMatrix computed with || instead of &&
BuildStaticMangledNameMatrixOr(basicType, precision, qualifier, primarySize, secondarySize) ==
    LET isMatrix == primarySize > 1 \/ secondarySize > 1
        isVector == primarySize > 1 /\ secondarySize = 1
        n1 == IF isMatrix THEN <<"m">> ELSE IF isVector THEN <<"v">> ELSE <<>>
        n2 == n1 \o GetBasicMangledName(basicType)
        n3 == Append(n2, CharPlus0(primarySize))
        n4 == IF isMatrix
              THEN Append(Append(n3, "x"), CharPlus0(secondarySize))
              ELSE n3
    IN  Append(n4, ";")

\* variant: the copy loop also copies the short code's terminating NUL
BuildStaticMangledNameCopiesNul(basicType, precision, qualifier, primarySize, secondarySize) ==
    LET isMatrix == primarySize > 1 /\ secondarySize > 1
        isVector == primarySize > 1 /\ secondarySize = 1
        n1 == IF isMatrix THEN <<"m">> ELSE IF isVector THEN <<"v">> ELSE <<>>
        n2 == Append(n1 \o GetBasicMangledName(basicType), "NUL")
        n3 == Append(n2, CharPlus0(primarySize))
        n4 == IF isMatrix
              THEN Append(Append(n3, "x"), CharPlus0(secondarySize))
              ELSE n3
    IN  Append(n4, ";")

\* variant: the matrix branch writes 'x' but not the digit of secondarySize
BuildStaticMangledNameNoSecondary(basicType, precision, qualifier, primarySize, secondarySize) ==
    LET isMatrix == primarySize > 1 /\ secondarySize > 1
        isVector == primarySize > 1 /\ secondarySize = 1
        n1 == IF isMatrix THEN <<"m">> ELSE IF isVector THEN <<"v">> ELSE <<>>
        n2 == n1 \o GetBasicMangledName(basicType)
        n3 == Append(n2, CharPlus0(primarySize))
        n4 == IF isMatrix THEN Append(n3, "x") ELSE n3
    IN  Append(n4, ";")

BuildStaticMangledName(basicType, precision, qualifier, primarySize, secondarySize) ==
    LET isMatrix == primarySize > 1 /\ secondarySize > 1
        isVector == primarySize > 1 /\ secondarySize = 1
        n1 == IF isMatrix THEN <<"m">> ELSE IF isVector THEN <<"v">> ELSE <<>>
        n2 == n1 \o GetBasicMangledName(basicType)
        n3 == Append(n2, CharPlus0(primarySize))
        n4 == IF isMatrix
              THEN Append(Append(n3, "x"), CharPlus0(secondarySize))
              ELSE n3
    IN  Append(n4, ";")

\* name[kStaticMangledNameMaxLength + 1]: the name and its NUL fit the array;
\* a constexpr evaluation that writes past it does not compile
FitsStaticMangledName(name) == Len(name) <= kStaticMangledNameMaxLength

kMangledNameInstance(basicType, precision, qualifier, primarySize, secondarySize) ==
    BuildStaticMangledName(basicType, precision, qualifier, primarySize, secondarySize)

(***************************************************************************)
(* Statically allocated TType values.                                      *)
(***************************************************************************)
Key(basicType, precision, qualifier, primarySize, secondarySize) ==
    [type |-> basicType, precision |-> precision, qualifier |-> qualifier,
     primarySize |-> primarySize, secondarySize |-> secondarySize]

\* the TType object stored in kInstance<B, P, Q, PS, SS>
kInstance(basicType, precision, qualifier, primarySize, secondarySize) ==
    [type |-> basicType, precision |-> precision, qualifier |-> qualifier,
     primarySize |-> primarySize, secondarySize |-> secondarySize,
     mangledName |-> kMangledNameInstance(basicType, precision, qualifier,
                                          primarySize, secondarySize)]

\* the static_asserts of Get ("primarySize out of bounds", "secondarySize out of bounds")
SizesInBounds(primarySize, secondarySize) ==
    /\ 1 <= primarySize /\ primarySize <= 4
    /\ 1 <= secondarySize /\ secondarySize <= 4

\* the static_assert of GetForVecMat and GetForVecMatHelper ("unsupported basicType")
SupportedBasicType(basicType) == basicType \in VecMatTypes

\* Get<B, P, Q, PS, SS> can be instantiated
Instantiable(basicType, precision, qualifier, primarySize, secondarySize) ==
    /\ SizesInBounds(primarySize, secondarySize)
    /\ FitsStaticMangledName(BuildStaticMangledName(basicType, precision, qualifier,
                                                    primarySize, secondarySize))

\* address of kInstance<key> of translation unit tu
Slot(tu, key) == [tu |-> tu, key |-> key]

NullKey == Key("", "", "", 0, 0)
NullRef == Slot(0, NullKey)

\* the object a returned pointer points to
Deref(ref) ==
    kInstance(ref.key.type, ref.key.precision, ref.key.qualifier,
              ref.key.primarySize, ref.key.secondarySize)

(***************************************************************************)
(* Lookups.  Each yields the set of outcomes a build can produce:          *)
(* [fatal |-> UNREACHABLE() was hit, ref |-> the pointer returned].        *)
(***************************************************************************)
\* variant: the instance is selected without the precision
GetIgnoringPrecision(basicType, precision, qualifier, primarySize, secondarySize) ==
    {[fatal |-> FALSE,
      ref |-> Slot(tu, Key(basicType, "EbpUndefined", qualifier, primarySize, secondarySize))] :
        tu \in TUs}

Get(basicType, precision, qualifier, primarySize, secondarySize) ==
    {[fatal |-> FALSE,
      ref |-> Slot(tu, Key(basicType, precision, qualifier, primarySize, secondarySize))] :
        tu \in TUs}

GetBasic(basicType, primarySize, secondarySize) ==
    Get(basicType, "EbpUndefined", "EvqGlobal",
        IF primarySize = Omitted THEN 1 ELSE primarySize,
        IF secondarySize = Omitted THEN 1 ELSE secondarySize)

GetQualified(basicType, qualifier, primarySize, secondarySize) ==
    Get(basicType, "EbpUndefined", qualifier,
        IF primarySize = Omitted THEN 1 ELSE primarySize,
        IF secondarySize = Omitted THEN 1 ELSE secondarySize)

\* UNREACHABLE(); return fallback;  A build with assertions stops the process
\* (no pointer is returned), a build without them returns the fallback.
Unreachable(fallback) ==
    {[fatal |-> TRUE, ref |-> NullRef]} \cup
    {[fatal |-> TRUE, ref |-> o.ref] : o \in fallback}

\* variant: no switch, the run-time size is passed on unchecked
GetForVecMatHelperUnchecked(basicType, precision, qualifier, secondarySize, primarySize) ==
    Get(basicType, precision, qualifier, primarySize, secondarySize)

GetForVecMatHelper(basicType, precision, qualifier, secondarySize, primarySize) ==
    CASE primarySize = 1 -> Get(basicType, precision, qualifier, 1, secondarySize)
      [] primarySize = 2 -> Get(basicType, precision, qualifier, 2, secondarySize)
      [] primarySize = 3 -> Get(basicType, precision, qualifier, 3, secondarySize)
      [] primarySize = 4 -> Get(basicType, precision, qualifier, 4, secondarySize)
      [] OTHER -> Unreachable(GetBasic("EbtVoid", Omitted, Omitted))

GetForVecMat(basicType, precision, qualifier, primarySize, secondarySize) ==
    LET p == IF precision = "" THEN "EbpUndefined" ELSE precision
        q == IF qualifier = "" THEN "EvqGlobal" ELSE qualifier
        ss == IF secondarySize = Omitted THEN 1 ELSE secondarySize
    IN  CASE ss = 1 -> GetForVecMatHelper(basicType, p, q, 1, primarySize)
          [] ss = 2 -> GetForVecMatHelper(basicType, p, q, 2, primarySize)
          [] ss = 3 -> GetForVecMatHelper(basicType, p, q, 3, primarySize)
          [] ss = 4 -> GetForVecMatHelper(basicType, p, q, 4, primarySize)
          [] OTHER -> Unreachable(GetBasic("EbtVoid", Omitted, Omitted))

GetForVec(basicType, precision, qualifier, size) ==
    LET p == IF precision = "" THEN "EbpUndefined" ELSE precision
    IN  CASE qualifier = "EvqGlobal" -> GetForVecMatHelper(basicType, p, "EvqGlobal", 1, size)
          [] qualifier = "EvqOut" -> GetForVecMatHelper(basicType, p, "EvqOut", 1, size)
          [] OTHER -> Unreachable(GetBasic("EbtVoid", Omitted, Omitted))

\* the keys of the lookups' domain
Keys == {Key(k[1], k[2], k[3], k[4], k[5]) :
            k \in LookupTypes \X Precisions \X Qualifiers \X DynSizes \X DynSizes}

\* The kInstance objects of the program: static storage, constant-initialized,
\* one object per translation unit for every specialization that compiles.
Registry ==
    {Slot(tu, k) : tu \in TUs,
                   k \in {x \in Keys : Instantiable(x.type, x.precision, x.qualifier,
                                                    x.primarySize, x.secondarySize)}}

(***************************************************************************)
(* State.                                                                  *)
(*   ret   the last lookup: its operation, its arguments as written at the *)
(*         call ("" or Omitted where an argument is defaulted or is not a  *)
(*         parameter of the operation) and its outcome                     *)
(*   enc   two applications of BuildStaticMangledName: the keys and, once  *)
(*         applied, the names                                              *)
(***************************************************************************)
NoLookup == [op |-> "none", args |-> NullKey, fatal |-> FALSE, ref |-> NullRef]
NoEnc == [key |-> NullKey, name |-> <<>>, done |-> FALSE]

Init ==
    /\ ret = NoLookup
    /\ enc = <<NoEnc, NoEnc>>

\* an assertion build has stopped the process
Aborted == ret.fatal /\ ret.ref = NullRef

\* the lookup op(args) completes with outcome o
Complete(op, args, o) ==
    /\ ~Aborted
    /\ ret' = [op |-> op, args |-> args, fatal |-> o.fatal, ref |-> o.ref]
    /\ UNCHANGED enc

\* size arguments of a template with defaults: both, the first only, or none
DefaultedSizes ==
    (DynSizes \X DynSizes) \cup (DynSizes \X {Omitted}) \cup {<<Omitted, Omitted>>}

SizeOr1(s) == IF s = Omitted THEN 1 ELSE s

CallGet ==
    \E b \in LookupTypes, p \in Precisions, q \in Qualifiers, ps \in DynSizes, ss \in DynSizes :
        /\ Instantiable(b, p, q, ps, ss)
        /\ \E o \in Get(b, p, q, ps, ss) : Complete("Get", Key(b, p, q, ps, ss), o)

CallGetBasic ==
    \E b \in LookupTypes, s \in DefaultedSizes :
        /\ Instantiable(b, "EbpUndefined", "EvqGlobal", SizeOr1(s[1]), SizeOr1(s[2]))
        /\ \E o \in GetBasic(b, s[1], s[2]) :
              Complete("GetBasic", Key(b, "", "", s[1], s[2]), o)

CallGetQualified ==
    \E b \in LookupTypes, q \in Qualifiers, s \in DefaultedSizes :
        /\ Instantiable(b, "EbpUndefined", q, SizeOr1(s[1]), SizeOr1(s[2]))
        /\ \E o \in GetQualified(b, q, s[1], s[2]) :
              Complete("GetQualified", Key(b, "", q, s[1], s[2]), o)

\* template arguments with defaults: both, or none
DefaultedPQ == (Precisions \X Qualifiers) \cup {<<"", "">>}

CallGetForVecMat ==
    \E b \in LookupTypes, pq \in DefaultedPQ, ps \in DynSizes, ss \in DynSizes \cup {Omitted} :
        /\ SupportedBasicType(b)
        /\ \E o \in GetForVecMat(b, pq[1], pq[2], ps, ss) :
              Complete("GetForVecMat", Key(b, pq[1], pq[2], ps, ss), o)

CallGetForVec ==
    \E b \in LookupTypes, p \in Precisions \cup {""}, q \in Qualifiers, size \in DynSizes :
        /\ SupportedBasicType(b)
        /\ \E o \in GetForVec(b, p, q, size) :
              Complete("GetForVec", Key(b, p, q, size, Omitted), o)

Next == CallGet \/ CallGetBasic \/ CallGetQualified \/ CallGetForVecMat \/ CallGetForVec

Spec == Init /\ [][Next]_vars

(***************************************************************************)
(* The name encoder on its own: two keys are drawn and                     *)
(* BuildStaticMangledName is applied to the first, then to the second.     *)
(* The keys are those kMangledNameInstance can be instantiated with.       *)
(***************************************************************************)
EncKeys == {Key(k[1], k[2], k[3], k[4], k[5]) :
               k \in BasicTypes \X Precisions \X Qualifiers \X (1..4) \X (1..4)}

InitEncode ==
    /\ ret = NoLookup
    /\ enc \in {<<[key |-> k1, name |-> <<>>, done |-> FALSE],
                  [key |-> k2, name |-> <<>>, done |-> FALSE]>> : k1 \in EncKeys, k2 \in EncKeys}

Encode ==
    \E i \in 1..2 :
        /\ ~enc[i].done
        /\ \A j \in 1..(i - 1) : enc[j].done
        /\ enc' = [enc EXCEPT ![i] =
                      [key |-> enc[i].key,
                       name |-> BuildStaticMangledName(enc[i].key.type, enc[i].key.precision,
                                                       enc[i].key.qualifier,
                                                       enc[i].key.primarySize,
                                                       enc[i].key.secondarySize),
                       done |-> TRUE]]
        /\ UNCHANGED ret

NextEncode == Encode

SpecEncode == InitEncode /\ [][NextEncode]_vars

(***************************************************************************)
(* Vocabulary of the properties.                                           *)
(***************************************************************************)
\* the lookup recorded in r handed back a pointer
Returned(r) == r.op # "none" /\ r.ref # NullRef

\* the key a lookup asks for, defaulted arguments filled in as documented:
\* precision unspecified, qualifier global-scope, sizes 1
RequestedKey(r) ==
    Key(r.args.type,
        IF r.args.precision = "" THEN "EbpUndefined" ELSE r.args.precision,
        IF r.args.qualifier = "" THEN "EvqGlobal" ELSE r.args.qualifier,
        IF r.args.primarySize = Omitted THEN 1 ELSE r.args.primarySize,
        IF r.args.secondarySize = Omitted THEN 1 ELSE r.args.secondarySize)

InRange(n) == n \in 1..4
ValidKey(k) == InRange(k.primarySize) /\ InRange(k.secondarySize)

VoidKey == Key("EbtVoid", "EbpUndefined", "EvqGlobal", 1, 1)

\* C1: any two Get lookups made with an identical key (sizes in 1..4) return
\* the same descriptor reference.
C1_SameKeySameReference ==
    [][(/\ ret.op = "Get" /\ ret'.op = "Get"
        /\ Returned(ret) /\ Returned(ret')
        /\ ValidKey(ret.args)
        /\ ret'.args = ret.args)
       => ret'.ref = ret.ref]_vars

\* the name the documented format prescribes for (basicKind, primarySize, secondarySize)
FormatName(basicType, primarySize, secondarySize) ==
    (IF primarySize > 1 /\ secondarySize > 1 THEN <<"m">>
     ELSE IF primarySize > 1 /\ secondarySize = 1 THEN <<"v">>
     ELSE <<>>)
    \o GetBasicMangledName(basicType)
    \o <<CharPlus0(primarySize)>>
    \o (IF primarySize > 1 /\ secondarySize > 1
        THEN <<"x", CharPlus0(secondarySize)>> ELSE <<>>)
    \o <<";">>

SameShape(k1, k2) ==
    /\ k1.type = k2.type
    /\ k1.primarySize = k2.primarySize
    /\ k1.secondarySize = k2.secondarySize

\* C2: for sizes in 1..4 the encoder returns prefix ('m' matrix, 'v' vector,
\* none otherwise), short code, digit of primarySize, for a matrix 'x' and the
\* digit of secondarySize, then ';'; precision and qualifier do not affect it.
C2_EncodeFormat ==
    /\ \A i \in 1..2 :
          (enc[i].done /\ ValidKey(enc[i].key)) =>
             enc[i].name = FormatName(enc[i].key.type, enc[i].key.primarySize,
                                      enc[i].key.secondarySize)
    /\ (enc[1].done /\ enc[2].done /\ SameShape(enc[1].key, enc[2].key))
          => enc[1].name = enc[2].name

C2_Witness ==
    /\ enc[1].done /\ enc[2].done
    /\ SameShape(enc[1].key, enc[2].key)
    /\ enc[1].key.precision # enc[2].key.precision
    /\ enc[1].key.qualifier # enc[2].key.qualifier
    /\ enc[1].key.primarySize = 2 /\ enc[1].key.secondarySize = 3
    /\ enc[1].name = <<"m", "f", "2", "x", "3", ";">>

\* C3: for the four vector/matrix basic kinds and sizes in 1..4, GetForVecMat
\* returns the identical reference as Get with the same five attributes.
C3_VecMatSameReferenceAsGet ==
    [][(/\ {ret.op, ret'.op} = {"Get", "GetForVecMat"}
        /\ Returned(ret) /\ Returned(ret')
        /\ RequestedKey(ret).type \in VecMatTypes
        /\ ValidKey(RequestedKey(ret))
        /\ RequestedKey(ret') = RequestedKey(ret))
       => ret'.ref = ret.ref]_vars

\* C4: GetForVec with size in 1..4 succeeds and returns the same reference as
\* Get(basicKind, precision, qualifier, size, 1) when the qualifier is
\* global-scope or output-parameter; with any other qualifier it takes the
\* fatal path and never returns a descriptor carrying that qualifier.
C4_VecQualifierRestriction ==
    [][(ret'.op = "GetForVec" /\ InRange(ret'.args.primarySize)) =>
        IF ret'.args.qualifier \in {"EvqGlobal", "EvqOut"}
        THEN /\ ~ret'.fatal
             /\ Returned(ret')
             /\ (ret.op = "Get" /\ ret.args = RequestedKey(ret')) => ret'.ref = ret.ref
        ELSE /\ ret'.fatal
             /\ Returned(ret') => Deref(ret'.ref).qualifier # ret'.args.qualifier]_vars

Dynamic(r) == r.op \in {"GetForVecMat", "GetForVec"}

\* C5: every descriptor of the registry has both sizes in 1..4; a lookup hands
\* back registry descriptors only; a dynamic call with a dimension outside
\* 1..4 takes the fatal path and hands back nothing but the void fallback.
C5_SizesInRange ==
    /\ \A s \in Registry :
          InRange(Deref(s).primarySize) /\ InRange(Deref(s).secondarySize)
    /\ Returned(ret) =>
          /\ ret.ref \in Registry
          /\ InRange(Deref(ret.ref).primarySize) /\ InRange(Deref(ret.ref).secondarySize)
    /\ (Dynamic(ret) /\ ~ValidKey(RequestedKey(ret))) =>
          /\ ret.fatal
          /\ Returned(ret) => Deref(ret.ref) = Deref(Slot(1, VoidKey))

C5_Witness ==
    /\ ret.op = "GetForVecMat"
    /\ ret.args.primarySize = 5 /\ ret.args.secondarySize = 2
    /\ ret.fatal
    /\ Returned(ret)
    /\ ret.ref.key = VoidKey

C7_OverloadsSameReferenceAsGet ==
    [][(/\ ret.op = "Get"
        /\ ret'.op \in {"GetBasic", "GetQualified"}
        /\ Returned(ret) /\ Returned(ret')
        /\ ret.args = RequestedKey(ret'))
       => ret'.ref = ret.ref]_vars

\* C8: the registry holds at most one descriptor per distinct key, descriptors
\* are never removed or changed, and a lookup leaves the registry as it is:
\* the descriptor a lookup hands back is the only registry descriptor with
\* its five attributes and name.
C8_OneDescriptorPerKey ==
    Returned(ret) =>
        /\ ret.ref \in Registry
        /\ \A s \in Registry : Deref(s) = Deref(ret.ref) => s = ret.ref

C10_NamesIdentifyShape ==
    (/\ enc[1].done /\ enc[2].done
     /\ ValidKey(enc[1].key) /\ ValidKey(enc[2].key)
     /\ ~SameShape(enc[1].key, enc[2].key))
    => enc[1].name # enc[2].name

\* C10 amended: two keys with sizes in 1..4 get the same canonical name exactly
\* when they agree in basicKind and primarySize and either agree in
\* secondarySize or have primarySize 1 (a key with primarySize 1 gets the
\* scalar name whatever its secondarySize).
C10_NamesIdentifyShapeAmended ==
    (/\ enc[1].done /\ enc[2].done
     /\ ValidKey(enc[1].key) /\ ValidKey(enc[2].key))
    => (enc[1].name = enc[2].name
          <=> /\ enc[1].key.type = enc[2].key.type
              /\ enc[1].key.primarySize = enc[2].key.primarySize
              /\ \/ enc[1].key.secondarySize = enc[2].key.secondarySize
                 \/ enc[1].key.primarySize = 1)

C10_Witness ==
    /\ enc[1].done /\ enc[2].done
    /\ enc[1].key.type = enc[2].key.type
    /\ enc[1].key.primarySize = 2 /\ enc[2].key.primarySize = 2
    /\ enc[1].key.secondarySize = 2 /\ enc[2].key.secondarySize = 3
    /\ enc[1].name # enc[2].name

====
